---- MODULE Spec2Model ----
(***************************************************************************)
(* A model of NairaSense's tiered rate resolution (src/services/gemini.ts): *)
(* fetchRealTimeRate and its helpers fetchFromAI, attemptAIFetchWithRetry,  *)
(* mapDbToExchangeData and invertExchangeData, the Supabase table           *)
(* currency_rates they read and upsert, and the oracle they query; and of   *)
(* the consumer (App.tsx): loadData with its session cache ratesCache, and  *)
(* the handlers that call it.                                               *)
(***************************************************************************)
EXTENDS Integers, Sequences, FiniteSets, TLC

VARIABLES
    now,      \* the wall clock, in milliseconds (new Date().getTime())
    store,    \* table currency_rates: the set of its rows
    pending,  \* upserts issued and not yet applied (fire-and-forget)
    call,     \* one record per concurrent fetchRealTimeRate invocation
    started,  \* the number of invocations made so far
    fromCurrency, toCurrency,  \* App: the selected pair
    appData,      \* App: data, the quote on display (NoData for null)
    loading,      \* App: the loading flag
    error,        \* App: the error message on display ("" for null)
    ratesCache,   \* App: ratesCache.current, "FROM-TO" -> ExchangeData
    mounted       \* App: the effect of the first render has run

appvars == <<fromCurrency, toCurrency, appData, loading, error, ratesCache, mounted>>

vars == <<now, store, pending, call, started, appvars>>

(***************************************************************************)
(* JavaScript values.  A number is a fraction n/d in lowest terms with     *)
(* d > 0; NaN, undefined, null and JSON strings are tagged records of the  *)
(* same shape.  A JSON string carries the number parseFloat reads from its *)
(* prefix (d = 0 when it has no numeric prefix).                           *)
(***************************************************************************)
Num(n, d) == [k |-> "num", n |-> n, d |-> d]
Str(n, d) == [k |-> "str", n |-> n, d |-> d]
NaN == [k |-> "nan", n |-> 0, d |-> 0]
Undefined == [k |-> "undef", n |-> 0, d |-> 0]
Null == [k |-> "null", n |-> 0, d |-> 0]

\* if (v): numbers other than 0 and NaN, and non-empty strings, are truthy
Truthy(v) ==
    \/ v.k = "num" /\ v.n # 0
    \/ v.k = "str"

\* parseFloat(v) of a JSON value
parseFloat(v) ==
    CASE v.k = "num" -> v
      [] v.k = "str" -> IF v.d = 0 THEN NaN ELSE Num(v.n, v.d)
      [] OTHER -> NaN

\* x > 0, x <= 0, x < 10000, x === 0, Number.isInteger(x); false on NaN
GtZero(x) == x.k = "num" /\ x.n > 0
LeZero(x) == x.k = "num" /\ x.n <= 0
IsZero(x) == x.k = "num" /\ x.n = 0
LtBound(x, b) == x.k = "num" /\ x.n < b * x.d
IsInteger(x) == x.k = "num" /\ x.n % x.d = 0
EqInt(x, i) == x.k = "num" /\ x.n = i * x.d

\* 1 / x for x other than 0: the fraction turned over, NaN for NaN
Reciprocal(x) ==
    CASE x.k = "num" /\ x.n > 0 -> Num(x.d, x.n)
      [] x.k = "num" /\ x.n < 0 -> Num(-x.d, -x.n)
      [] OTHER -> NaN

\* a || b
OrElse(a, b) == IF Truthy(a) THEN a ELSE b

(***************************************************************************)
(* Program constants.                                                      *)
(***************************************************************************)
CACHE_DURATION_MS == 1800000

DEFAULT_RETRIES == 1

\* `${from}-${to}`
PairKey(from, to) == from \o "-" \o to

EMERGENCY_RATES ==
    [p \in {"USD-NGN", "GBP-NGN", "EUR-NGN", "CAD-NGN"} |->
        CASE p = "USD-NGN" -> Num(1580, 1)
          [] p = "GBP-NGN" -> Num(2050, 1)
          [] p = "EUR-NGN" -> Num(1720, 1)
          [] p = "CAD-NGN" -> Num(1150, 1)]

\* EmergencyRate with a hard-coded estimate for the keys the table lacks
EmergencyRate_Default(pairId) ==
    IF pairId \in DOMAIN EMERGENCY_RATES THEN EMERGENCY_RATES[pairId] ELSE Num(1600, 1)

\* EMERGENCY_RATES[pairId], undefined for a key the table does not hold
EmergencyRate(pairId) ==
    IF pairId \in DOMAIN EMERGENCY_RATES THEN EMERGENCY_RATES[pairId] ELSE Undefined

EMERGENCY_SUMMARY ==
    "High demand detected. Showing estimated market rates while we reconnect to live data."

\* new Date(t).toLocaleTimeString(): the time of day to the second, the
\* date and the milliseconds are dropped
toLocaleTimeString(t) == ToString((t % 86400000) \div 1000) \o "s"

(***************************************************************************)
(* The oracle (ai.models.generateContent).  A reply is an error thrown by  *)
(* the call or a response.  A response's text is held by what the parser's *)
(* regular expressions see in it:                                          *)
(*   block    "fenced": ```json\n...\n``` is present; "bare": no fence but *)
(*            a {..."rate"...} substring; "none": neither                  *)
(*   parses   JSON.parse of the matched block succeeds                     *)
(*   rate, parallelRate, summary   the parsed object's properties          *)
(*   prose    the text outside the block                                   *)
(*   matches  cleanText.match(/(\d{1,3}(,\d{3})*(\.\d+)?)/g) after the     *)
(*            years 202x are removed, each through parseFloat              *)
(*   chunks   groundingMetadata.groundingChunks                            *)
(* An error's message is the sequence of its words.                        *)
(***************************************************************************)
NoCitation == [web |-> FALSE, title |-> "", uri |-> ""]
Web(title, uri) == [web |-> TRUE, title |-> title, uri |-> uri]

Response(block, parses, rate, parallelRate, summary, prose, matches, chunks) ==
    [kind |-> "response", block |-> block, parses |-> parses, rate |-> rate,
     parallelRate |-> parallelRate, summary |-> summary, prose |-> prose,
     matches |-> matches, chunks |-> chunks]

ApiError(status, code, message) ==
    [kind |-> "error", status |-> status, code |-> code, message |-> message]

CBN == Web("CBN", "https://cbn.gov.ng")
ABOKI == Web("AbokiFX", "https://abokifx.com")

\* ```json {"rate": 1550.25, "parallelRate": 1600.0, "summary": "Stable."} ```
\* after prose quoting the decoy 1,499.50; two web citations
TextScenario ==
    Response("fenced", TRUE, Num(6201, 4), Num(1600, 1), "Stable.",
             "Official 1,499.50.",
             <<Num(2999, 2), Num(155, 1), Num(1, 4), Num(160, 1), Num(0, 1)>>,
             <<CBN, ABOKI>>)
\* ```json {"rate": "1600", "parallelRate": null} ```: a numeric string, no
\* summary; one web chunk and one chunk of another shape
TextNumericString ==
    Response("fenced", TRUE, Str(1600, 1), Null, "", "Rates are steady.",
             <<Num(160, 1), Num(0, 1)>>, <<NoCitation, CBN>>)
\* no JSON at all: "USD trades at 1,550.25 naira in 2025."
TextProseOnly ==
    Response("none", FALSE, Undefined, Undefined, "",
             "USD trades at 1,550.25 naira in 2025.", <<Num(6201, 4)>>, <<>>)
\* no JSON and no number
TextNoNumber ==
    Response("none", FALSE, Undefined, Undefined, "", "Market data unavailable.",
             <<>>, <<>>)
\* ```json {"rate": 0, "summary": "No data."} ``` and only integers in prose
TextZeroRate ==
    Response("fenced", TRUE, Num(0, 1), Undefined, "No data.", "Checked 3 sites.",
             <<Num(3, 1), Num(0, 1)>>, <<CBN>>)
\* ```json {"rate": -5, "summary": "Down."} ```
TextNegativeRate ==
    Response("fenced", TRUE, Num(-5, 1), Undefined, "Down.", "", <<Num(5, 1)>>, <<>>)
\* ```json {"rate": "N/A", "parallelRate": "N/A"} ```, no number elsewhere
TextNotANumber ==
    Response("fenced", TRUE, Str(0, 0), Str(0, 0), "", "No quote found.", <<>>, <<>>)
\* ```json {"rate": "N/A"} ``` after prose "Around 1,550.25."
TextNotANumberWithProse ==
    Response("fenced", TRUE, Str(0, 0), Undefined, "", "Around 1,550.25.",
             <<Num(6201, 4)>>, <<>>)
\* ```json {"rate": 1600.5, "parallelRate": "N/A"} ```
TextParallelNotANumber ==
    Response("fenced", TRUE, Num(3201, 2), Str(0, 0), "Thin market.", "",
             <<Num(160, 1), Num(1, 2)>>, <<>>)
\* {"rate": 1600.5} without a fence
TextBareJson ==
    Response("bare", TRUE, Num(3201, 2), Undefined, "", "Rate today.",
             <<Num(160, 1), Num(1, 2)>>, <<>>)
\* ```json {"rate": 1600.5,} ``` (no JSON) after prose "about 1,600.50"
TextBadJson ==
    Response("fenced", FALSE, Undefined, Undefined, "", "About 1,600.50.",
             <<Num(3201, 2), Num(160, 1), Num(1, 2)>>, <<ABOKI>>)

Responses ==
    {TextScenario, TextNumericString, TextProseOnly, TextNoNumber, TextZeroRate,
     TextNegativeRate, TextNotANumber, TextNotANumberWithProse,
     TextParallelNotANumber, TextBareJson, TextBadJson}

ErrStatus429 == ApiError(429, 0, <<>>)
ErrCode429 == ApiError(0, 429, <<>>)
ErrMessage429 == ApiError(0, 0, <<"got", "429", "Too", "Many", "Requests">>)
ErrQuota == ApiError(0, 0, <<"Resource", "quota", "exceeded">>)
ErrNetwork == ApiError(0, 0, <<"fetch", "failed">>)
ErrServer == ApiError(500, 500, <<>>)
\* new Error("AI returned 0 rate")
ErrZeroRate == ApiError(0, 0, <<"AI", "returned", "0", "rate">>)

ApiErrors == {ErrStatus429, ErrCode429, ErrMessage429, ErrQuota, ErrNetwork, ErrServer}

Replies == Responses \cup ApiErrors

\* the replies the oracle gives in the checked runs
OracleReplies ==
    {TextScenario, TextProseOnly, TextNoNumber, TextZeroRate, TextNegativeRate,
     TextNotANumber, TextParallelNotANumber,
     ErrStatus429, ErrCode429, ErrMessage429, ErrQuota, ErrNetwork}

(***************************************************************************)
(* fetchFromAI: the parser.                                                *)
(***************************************************************************)
ExchangeData(rate, parallelRate, summary, lastUpdated, sources) ==
    [rate |-> rate, parallelRate |-> parallelRate, summary |-> summary,
     lastUpdated |-> lastUpdated, sources |-> sources]

NoData == ExchangeData(Undefined, Undefined, "", "", <<>>)
NoError == ApiError(0, 0, <<"none">>)

RECURSIVE WebSources(_)
\* groundingChunks.map(chunk.web ? {title, uri} : null).filter(non-null)
WebSources(chunks) ==
    IF chunks = <<>> THEN <<>>
    ELSE (IF Head(chunks).web
          THEN <<[title |-> Head(chunks).title, uri |-> Head(chunks).uri]>>
          ELSE <<>>) \o WebSources(Tail(chunks))

\* jsonMatch is found and JSON.parse(jsonStr) does not throw
JsonParsed(r) == r.block # "none" /\ r.parses

\* detectedRate after the JSON path
JsonRate(r) ==
    IF JsonParsed(r) /\ Truthy(r.rate) THEN parseFloat(r.rate) ELSE Num(0, 1)

\* parallelRate after the JSON path
JsonParallelRate(r) ==
    IF JsonParsed(r) /\ Truthy(r.parallelRate) THEN parseFloat(r.parallelRate)
    ELSE Undefined

\* the predicate of candidates.find
ValidCandidate(n) ==
    /\ GtZero(n)
    /\ LtBound(n, 10000)
    /\ ~IsInteger(n)
    /\ ~EqInt(n, 2024)
    /\ ~EqInt(n, 2025)

\* candidates.find(...): the first valid candidate, undefined when none
FindValid(candidates) ==
    LET hits == {i \in DOMAIN candidates : ValidCandidate(candidates[i])}
    IN  IF hits = {} THEN Undefined
        ELSE candidates[CHOOSE i \in hits : \A j \in hits : i <= j]

\* RegexRuns whatever the JSON path found
RegexRuns_Always(r) == TRUE

\* the regex path runs when !detectedRate
RegexRuns(r) == ~Truthy(JsonRate(r))

\* detectedRate after both paths
DetectedRate(r) ==
    IF RegexRuns(r) /\ Truthy(FindValid(r.matches)) THEN FindValid(r.matches)
    ELSE JsonRate(r)

\* summaryText.replace(/```json[\s\S]*```/, '').trim(): the fenced block is
\* cut from the raw text, a block without a fence stays in it
SummaryOf(r) ==
    IF JsonParsed(r) /\ r.summary # "" THEN r.summary
    ELSE IF r.block = "bare" THEN r.prose \o " {json}"
    ELSE r.prose

\* fetchFromAI without the validation of a 0 rate
fetchFromAI_NoValidation(reply, t) ==
    IF reply.kind = "error" THEN [ok |-> FALSE, data |-> NoData, err |-> reply]
    ELSE [ok |-> TRUE,
          data |-> ExchangeData(DetectedRate(reply), JsonParallelRate(reply),
                                SummaryOf(reply), toLocaleTimeString(t),
                                WebSources(reply.chunks)),
          err |-> NoError]

\* fetchFromAI's outcome on the oracle's reply, at time t
fetchFromAI(reply, t) ==
    IF reply.kind = "error" THEN [ok |-> FALSE, data |-> NoData, err |-> reply]
    ELSE IF IsZero(DetectedRate(reply))
    THEN [ok |-> FALSE, data |-> NoData, err |-> ErrZeroRate]
    ELSE [ok |-> TRUE,
          data |-> ExchangeData(DetectedRate(reply), JsonParallelRate(reply),
                                SummaryOf(reply), toLocaleTimeString(t),
                                WebSources(reply.chunks)),
          err |-> NoError]

(***************************************************************************)
(* attemptAIFetchWithRetry: the rate-limit test.                           *)
(***************************************************************************)
Includes(message, word) == \E i \in DOMAIN message : message[i] = word

\* isQuota that takes every error for a rate limit
isQuota_Always(err) == TRUE

isQuota(err) ==
    \/ err.status = 429
    \/ err.code = 429
    \/ (err.message # <<>> /\ (Includes(err.message, "429") \/ Includes(err.message, "quota")))

\* ShouldRetry without the budget
ShouldRetry_NoBudget(retries, err) == isQuota(err)

\* retries > 0 && isQuota
ShouldRetry(retries, err) == retries > 0 /\ isQuota(err)

(***************************************************************************)
(* Rows of currency_rates and the helpers on them.                         *)
(***************************************************************************)
Row(pair, rate, parallel_rate, summary, sources, updated_at) ==
    [pair |-> pair, rate |-> rate, parallel_rate |-> parallel_rate,
     summary |-> summary, sources |-> sources, updated_at |-> updated_at]

NoRow == Row("", Null, Null, "", <<>>, 0)

\* mapDbToExchangeData that drops the parallel rate
mapDbToExchangeData_NoParallel(dbData) ==
    ExchangeData(dbData.rate, Undefined,
                 dbData.summary, toLocaleTimeString(dbData.updated_at),
                 dbData.sources)

mapDbToExchangeData(dbData) ==
    ExchangeData(dbData.rate, OrElse(dbData.parallel_rate, Undefined),
                 dbData.summary, toLocaleTimeString(dbData.updated_at),
                 dbData.sources)

\* invertExchangeData that leaves parallelRate as it is
invertExchangeData_KeepParallel(data) ==
    IF LeZero(data.rate) THEN data
    ELSE [data EXCEPT !.rate = Reciprocal(data.rate)]

\* invertExchangeData without the guard on rate <= 0
invertExchangeData_NoGuard(data) ==
    [data EXCEPT !.rate = Reciprocal(data.rate),
                 !.parallelRate = IF Truthy(data.parallelRate)
                                  THEN Reciprocal(data.parallelRate)
                                  ELSE Undefined]

invertExchangeData(data) ==
    IF LeZero(data.rate) THEN data
    ELSE [data EXCEPT !.rate = Reciprocal(data.rate),
                      !.parallelRate = IF Truthy(data.parallelRate)
                                       THEN Reciprocal(data.parallelRate)
                                       ELSE Undefined]

\* the row fetchRealTimeRate upserts for aiResult
UpsertRow(pairId, aiResult, t) ==
    Row(pairId, aiResult.rate, OrElse(aiResult.parallelRate, Null),
        aiResult.summary, aiResult.sources, t)

\* IsFresh with the boundary on the fresh side
IsFresh_Inclusive(row, t) == t - row.updated_at <= CACHE_DURATION_MS

\* now - updatedAt < CACHE_DURATION_MS
IsFresh(row, t) == t - row.updated_at < CACHE_DURATION_MS

(***************************************************************************)
(* fetchRealTimeRate, one record per invocation in flight.                 *)
(*   pc  "idle"    not called                                              *)
(*       "read"    awaiting supabase ... .single()                         *)
(*       "ai"      awaiting ai.models.generateContent                      *)
(*       "sleep"   awaiting sleep(2000) before the retry                   *)
(*       "done"    returned;  "failed"  threw err                          *)
(* from .. err are the function's variables.  The other fields record     *)
(* what the invocation met and did: selected is the data the select gave   *)
(* (NoRow for none), reply the oracle's last reply, asked the number of    *)
(* oracle calls, aiOutcome how attemptAIFetchWithRetry ended and tier the  *)
(* branch that chose the result.                                           *)
(***************************************************************************)
\* CurrencyCode is 'USD' | 'NGN' | 'EUR' | 'GBP' | 'CAD'; three of them
Currencies == {"NGN", "USD", "EUR"}

DOMESTIC == "NGN"

Instants == {0, CACHE_DURATION_MS - 1, CACHE_DURATION_MS}

PairIds == {PairKey(a, b) : a, b \in Currencies}

\* the (from, to) pairs asked for in the checked runs
Requests ==
    {<<"USD", "NGN">>, <<"NGN", "USD">>, <<"NGN", "EUR">>, <<"NGN", "NGN">>,
     <<"USD", "EUR">>}

\* at most MaxCalls invocations are made in a run
MaxCalls == 2

IdleCall ==
    [pc |-> "idle", from |-> "", to |-> "", searchFrom |-> "", searchTo |-> "",
     shouldInvert |-> FALSE, pairId |-> "", staleRecord |-> NoRow,
     resultToReturn |-> NoData, retries |-> 0, err |-> NoError,
     selected |-> NoRow, reply |-> NoError,
     asked |-> 0, aiOutcome |-> "none", tier |-> "none"]

\* Canonicalize without the swap: the requested direction is searched
Canonicalize_NoSwap(from, to) ==
    [searchFrom |-> from, searchTo |-> to, shouldInvert |-> FALSE]

\* 1. Determine Canonical Pair
Canonicalize(from, to) ==
    IF from = DOMESTIC /\ to # DOMESTIC
    THEN [searchFrom |-> to, searchTo |-> from, shouldInvert |-> TRUE]
    ELSE [searchFrom |-> from, searchTo |-> to, shouldInvert |-> FALSE]

\* FallbackChain without the emergency table: no stale row, no quote
FallbackChain_NoEmergency(staleRecord, pairId) ==
    IF staleRecord # NoRow
    THEN [ok |-> TRUE, tier |-> "stale",
          data |-> [mapDbToExchangeData(staleRecord) EXCEPT
                        !.lastUpdated = @ \o " (Cached)"]]
    ELSE [ok |-> FALSE, tier |-> "failure", data |-> NoData]

\* FallbackChain with the two tiers in the other order
FallbackChain_EmergencyFirst(staleRecord, pairId) ==
    IF Truthy(EmergencyRate(pairId))
    THEN [ok |-> TRUE, tier |-> "emergency",
          data |-> ExchangeData(EmergencyRate(pairId), Undefined,
                                EMERGENCY_SUMMARY, "Offline Estimate", <<>>)]
    ELSE IF staleRecord # NoRow
    THEN [ok |-> TRUE, tier |-> "stale",
          data |-> [mapDbToExchangeData(staleRecord) EXCEPT
                        !.lastUpdated = @ \o " (Cached)"]]
    ELSE [ok |-> FALSE, tier |-> "failure", data |-> NoData]

\* 5./6. the fallbacks of the catch (aiError) block
FallbackChain(staleRecord, pairId) ==
    IF staleRecord # NoRow
    THEN [ok |-> TRUE, tier |-> "stale",
          data |-> [mapDbToExchangeData(staleRecord) EXCEPT
                        !.lastUpdated = @ \o " (Cached)"]]
    ELSE IF Truthy(EmergencyRate(pairId))
    THEN [ok |-> TRUE, tier |-> "emergency",
          data |-> ExchangeData(EmergencyRate(pairId), Undefined,
                                EMERGENCY_SUMMARY, "Offline Estimate", <<>>)]
    ELSE [ok |-> FALSE, tier |-> "failure", data |-> NoData]

\* Returned that inverts whatever the flag
Returned_AlwaysInverts(shouldInvert, resultToReturn) ==
    invertExchangeData(resultToReturn)

\* 7. return shouldInvert ? invertExchangeData(resultToReturn) : resultToReturn
Returned(shouldInvert, resultToReturn) ==
    IF shouldInvert THEN invertExchangeData(resultToReturn) ELSE resultToReturn

\* the quote a finished invocation returned
ReturnValue(c) == Returned(c.shouldInvert, c.resultToReturn)

\* ShouldPersist without the guard
ShouldPersist_Always(aiResult) == TRUE

\* 4. if (aiResult.rate > 0) supabase...upsert(...)
ShouldPersist(aiResult) == GtZero(aiResult.rate)

\* App's state at the first render, before its effect has run
AppInit ==
    /\ fromCurrency = "USD"
    /\ toCurrency = "NGN"
    /\ appData = NoData
    /\ loading = TRUE
    /\ error = ""
    /\ ratesCache = <<>>
    /\ mounted = FALSE

Init ==
    /\ now = 0
    /\ store = {}
    /\ pending = {}
    /\ call = [p \in {"p1"} |-> IdleCall]
    /\ started = 0
    /\ AppInit

\* fetchRealTimeRate(from, to) is entered: canonicalize, issue the select
Invoke(p, from, to) ==
    /\ call[p].pc = "idle"
    /\ started < MaxCalls
    /\ started' = started + 1
    /\ LET c == Canonicalize(from, to) IN
       call' = [call EXCEPT ![p] =
                  [IdleCall EXCEPT !.pc = "read", !.from = from, !.to = to,
                                   !.searchFrom = c.searchFrom,
                                   !.searchTo = c.searchTo,
                                   !.shouldInvert = c.shouldInvert,
                                   !.pairId = PairKey(c.searchFrom, c.searchTo)]]

\* fetchRealTimeRate(from, to) is called
Start(p, from, to) ==
    /\ Invoke(p, from, to)
    /\ UNCHANGED <<now, store, pending, appvars>>

\* ReadData that hands over the row whatever the outcome
ReadData_IgnoresError(outcome, pairId) ==
    LET rows == {r \in store : r.pair = pairId}
    IN  IF Cardinality(rows) = 1 THEN CHOOSE r \in rows : TRUE ELSE NoRow

\* what the select resolves to: the row or a not-found error ("row"), an
\* error result ("error"), or a rejection ("throw")
ReadData(outcome, pairId) ==
    LET rows == {r \in store : r.pair = pairId}
    IN  IF outcome = "row" /\ Cardinality(rows) = 1
        THEN CHOOSE r \in rows : TRUE ELSE NoRow

\* 2. the select returns; a fresh row is returned at once, otherwise the
\* oracle is asked (attemptAIFetchWithRetry with the default budget)
CacheRead(p, outcome) ==
    /\ call[p].pc = "read"
    /\ LET data == ReadData(outcome, call[p].pairId)
           fresh == data # NoRow /\ IsFresh(data, now)
           result == mapDbToExchangeData(data)
       IN  call' = [call EXCEPT ![p] =
                IF fresh
                THEN [@ EXCEPT !.pc = "done", !.staleRecord = data,
                               !.selected = data,
                               !.resultToReturn = result, !.tier = "fresh"]
                ELSE [@ EXCEPT !.pc = "ai", !.staleRecord = data,
                               !.selected = data,
                               !.retries = DEFAULT_RETRIES, !.asked = 1]]
    /\ UNCHANGED <<now, store, pending, started, appvars>>

\* 3.-7. generateContent returns or throws
OracleReply(p, reply) ==
    /\ call[p].pc = "ai"
    /\ LET c == call[p]
           out == fetchFromAI(reply, now)
           row == UpsertRow(c.pairId, out.data, now)
           fb == FallbackChain(c.staleRecord, c.pairId)
       IN  IF out.ok
           THEN /\ call' = [call EXCEPT ![p] =
                      [@ EXCEPT !.pc = "done", !.err = NoError, !.aiOutcome = "ok",
                                !.reply = reply,
                                !.resultToReturn = out.data, !.tier = "oracle"]]
                /\ pending' = IF ShouldPersist(out.data)
                              THEN pending \cup {row} ELSE pending
           ELSE IF ShouldRetry(c.retries, out.err)
           THEN /\ call' = [call EXCEPT ![p] = [@ EXCEPT !.pc = "sleep", !.err = out.err,
                                                        !.reply = reply]]
                /\ pending' = pending
           ELSE /\ call' = [call EXCEPT ![p] =
                      [@ EXCEPT !.pc = IF fb.ok THEN "done" ELSE "failed",
                                !.err = out.err, !.aiOutcome = "failed",
                                !.reply = reply,
                                !.resultToReturn = fb.data, !.tier = fb.tier]]
                /\ pending' = pending
    /\ UNCHANGED <<now, store, started, appvars>>

\* Retry that calls again with the budget it was given
Retry_KeepsBudget(p) ==
    /\ call[p].pc = "sleep"
    /\ call' = [call EXCEPT ![p] =
                  [@ EXCEPT !.pc = "ai", !.asked = @ + 1, !.err = NoError]]
    /\ UNCHANGED <<now, store, pending, started, appvars>>

\* sleep(2000) is over: attemptAIFetchWithRetry(from, to, retries - 1)
Retry(p) ==
    /\ call[p].pc = "sleep"
    /\ call' = [call EXCEPT ![p] =
                  [@ EXCEPT !.pc = "ai", !.retries = @ - 1, !.asked = @ + 1,
                            !.err = NoError]]
    /\ UNCHANGED <<now, store, pending, started, appvars>>

\* the caller has taken the quote or the error
Finish(p) ==
    /\ call[p].pc \in {"done", "failed"}
    /\ call' = [call EXCEPT ![p] = IdleCall]
    /\ UNCHANGED <<now, store, pending, started, appvars>>

\* WriteApplied that inserts the row next to the one the table holds
WriteApplied_Appends(row) ==
    /\ row \in pending
    /\ store' = store \cup {row}
    /\ pending' = pending \ {row}
    /\ UNCHANGED <<now, call, started, appvars>>

\* an upsert reaches the table: one row per pair, the last writer wins
WriteApplied(row) ==
    /\ row \in pending
    /\ store' = {r \in store : r.pair # row.pair} \cup {row}
    /\ pending' = pending \ {row}
    /\ UNCHANGED <<now, call, started, appvars>>

\* WriteFailed that fails the invocations of the row's pair
WriteFailed_Throws(row) ==
    /\ row \in pending
    /\ pending' = pending \ {row}
    /\ call' = [p \in DOMAIN call |->
                  IF call[p].pc = "done" /\ call[p].pairId = row.pair
                  THEN [call[p] EXCEPT !.pc = "failed"] ELSE call[p]]
    /\ UNCHANGED <<now, store, started, appvars>>

\* an upsert fails: the .then handler logs the error, nothing else
WriteFailed(row) ==
    /\ row \in pending
    /\ pending' = pending \ {row}
    /\ UNCHANGED <<now, store, call, started, appvars>>

\* time passes
Tick(t) ==
    /\ t > now
    /\ now' = t
    /\ UNCHANGED <<store, pending, call, started, appvars>>

Next ==
    \/ \E p \in DOMAIN call, r \in Requests : Start(p, r[1], r[2])
    \/ \E p \in DOMAIN call, outcome \in {"row", "error", "throw"} : CacheRead(p, outcome)
    \/ \E p \in DOMAIN call, reply \in OracleReplies : OracleReply(p, reply)
    \/ \E p \in DOMAIN call : Retry(p)
    \/ \E p \in DOMAIN call : Finish(p)
    \/ \E row \in pending : WriteApplied(row)
    \/ \E row \in pending : WriteFailed(row)
    \/ \E t \in Instants : Tick(t)

Spec == Init /\ [][Next]_vars

(***************************************************************************)
(* Two invocations in flight at once, over a table that may already hold   *)
(* the row an earlier invocation upserted for USD-NGN at time 0.           *)
(***************************************************************************)
SeedRow ==
    UpsertRow("USD-NGN", fetchFromAI(TextScenario, 0).data, 0)

InitPair ==
    /\ now = 0
    /\ store \in {{}, {SeedRow}}
    /\ pending = {}
    /\ call = [p \in {"p1", "p2"} |-> IdleCall]
    /\ started = 0
    /\ AppInit

SpecPair == InitPair /\ [][Next]_vars

(***************************************************************************)
(* One invocation at a time, the oracle giving any of Replies.             *)
(***************************************************************************)
NextReplies ==
    \/ \E p \in DOMAIN call, r \in Requests : Start(p, r[1], r[2])
    \/ \E p \in DOMAIN call, outcome \in {"row", "error", "throw"} : CacheRead(p, outcome)
    \/ \E p \in DOMAIN call, reply \in Replies : OracleReply(p, reply)
    \/ \E p \in DOMAIN call : Retry(p)
    \/ \E p \in DOMAIN call : Finish(p)
    \/ \E row \in pending : WriteApplied(row)
    \/ \E row \in pending : WriteFailed(row)
    \/ \E t \in Instants : Tick(t)

SpecReplies == Init /\ [][NextReplies]_vars

(***************************************************************************)
(* One invocation at a time, every await settling: the select resolves or  *)
(* rejects, generateContent returns or throws, the sleep(2000) timer       *)
(* fires.  Nothing is assumed of the caller, the writes or the clock.      *)
(***************************************************************************)
AwaitsSettle ==
    /\ WF_vars(\E outcome \in {"row", "error", "throw"} : CacheRead("p1", outcome))
    /\ WF_vars(\E reply \in OracleReplies : OracleReply("p1", reply))
    /\ WF_vars(Retry("p1"))

SpecLive == Init /\ [][Next]_vars /\ AwaitsSettle

(***************************************************************************)
(* The consumer (App.tsx).  loadData runs to its await in one step; the    *)
(* invocation of fetchRealTimeRate it awaits is call[p], whose from and to *)
(* are the pair the closure was made for; LoadDataResume is the rest of    *)
(* loadData after the await.  A handler that changes the selected pair is  *)
(* followed by the effect's loadData(false) for the new pair.              *)
(***************************************************************************)
ERROR_MESSAGE ==
    "Unable to retrieve real-time data. Please check your connection or try again later."

\* invertedData of the inverse cache hit
InvertedData(invData) ==
    [invData EXCEPT !.rate = IF Truthy(invData.rate)
                             THEN Reciprocal(invData.rate) ELSE Num(0, 1),
                    !.parallelRate = IF Truthy(invData.parallelRate)
                                     THEN Reciprocal(invData.parallelRate)
                                     ELSE Undefined]

\* the inverse stored next to a fetched result
InverseOfResult(result) ==
    [result EXCEPT !.rate = Reciprocal(result.rate),
                   !.parallelRate = IF Truthy(result.parallelRate)
                                    THEN Reciprocal(result.parallelRate)
                                    ELSE Undefined]

\* ratesCache.current[key] is set
Cached(key) == key \in DOMAIN ratesCache

\* DirectHit that never finds the key
DirectHit_Never(forceRefresh, cacheKey) == FALSE

\* if (!forceRefresh) { if (ratesCache.current[cacheKey]) ...
DirectHit(forceRefresh, cacheKey) == ~forceRefresh /\ Cached(cacheKey)

\* InverseHit that does not look at forceRefresh
InverseHit_IgnoresForce(forceRefresh, inverseKey) == Cached(inverseKey)

\* if (!forceRefresh) { ... if (ratesCache.current[inverseKey]) ...
InverseHit(forceRefresh, inverseKey) == ~forceRefresh /\ Cached(inverseKey)

\* loadData(forceRefresh) of the closure made for (from, to), up to its
\* return or its await
loadData(p, from, to, forceRefresh) ==
    LET cacheKey == PairKey(from, to)
        inverseKey == PairKey(to, from)
    IN  /\ error' = ""
        /\ IF DirectHit(forceRefresh, cacheKey)
           THEN /\ appData' = ratesCache[cacheKey]
                /\ loading' = FALSE
                /\ UNCHANGED <<ratesCache, call, started>>
           ELSE IF InverseHit(forceRefresh, inverseKey)
           THEN /\ ratesCache' = (cacheKey :> InvertedData(ratesCache[inverseKey]))
                                    @@ ratesCache
                /\ appData' = InvertedData(ratesCache[inverseKey])
                /\ loading' = FALSE
                /\ UNCHANGED <<call, started>>
           ELSE /\ loading' = TRUE
                /\ Invoke(p, from, to)
                /\ UNCHANGED <<appData, ratesCache>>

\* useEffect(() => loadData(false)) after the first render
Mount(p) ==
    /\ ~mounted
    /\ mounted' = TRUE
    /\ loadData(p, fromCurrency, toCurrency, FALSE)
    /\ UNCHANGED <<now, store, pending, fromCurrency, toCurrency>>

\* handleManualRefresh: the refresh button (disabled while loading) or the
\* Retry button of the error banner
HandleManualRefresh(p) ==
    /\ mounted
    /\ ~loading \/ error # ""
    /\ loadData(p, fromCurrency, toCurrency, TRUE)
    /\ UNCHANGED <<now, store, pending, fromCurrency, toCurrency, mounted>>

\* the selected pair becomes (from, to); the effect runs when it changed
SelectPair(p, from, to) ==
    /\ mounted
    /\ fromCurrency' = from
    /\ toCurrency' = to
    /\ IF from = fromCurrency /\ to = toCurrency
       THEN UNCHANGED <<appData, loading, error, ratesCache, call, started>>
       ELSE loadData(p, from, to, FALSE)
    /\ UNCHANGED <<now, store, pending, mounted>>

\* handleSwap
HandleSwap(p) == SelectPair(p, toCurrency, fromCurrency)

\* onFromChange = setFromCurrency
SetFromCurrency(p, code) == code # fromCurrency /\ SelectPair(p, code, toCurrency)

\* onToChange = setToCurrency
SetToCurrency(p, code) == code # toCurrency /\ SelectPair(p, fromCurrency, code)

\* LoadDataResume that stores nothing
LoadDataResume_NoStore(p) ==
    /\ call[p].pc \in {"done", "failed"}
    /\ IF call[p].pc = "done"
       THEN appData' = ReturnValue(call[p]) /\ error' = error
       ELSE error' = ERROR_MESSAGE /\ appData' = appData
    /\ loading' = FALSE
    /\ call' = [call EXCEPT ![p] = IdleCall]
    /\ UNCHANGED <<now, store, pending, started, fromCurrency, toCurrency, mounted,
                   ratesCache>>

\* LoadDataResume that stores an empty quote when the fetch failed
LoadDataResume_CachesFailure(p) ==
    /\ call[p].pc \in {"done", "failed"}
    /\ LET result == ReturnValue(call[p])
           cacheKey == PairKey(call[p].from, call[p].to)
           inverseKey == PairKey(call[p].to, call[p].from)
       IN  IF call[p].pc = "done"
           THEN /\ ratesCache' =
                      IF GtZero(result.rate)
                      THEN (inverseKey :> InverseOfResult(result))
                             @@ (cacheKey :> result) @@ ratesCache
                      ELSE (cacheKey :> result) @@ ratesCache
                /\ appData' = result
                /\ error' = error
           ELSE /\ error' = ERROR_MESSAGE
                /\ ratesCache' = (cacheKey :> NoData) @@ ratesCache
                /\ appData' = appData
    /\ loading' = FALSE
    /\ call' = [call EXCEPT ![p] = IdleCall]
    /\ UNCHANGED <<now, store, pending, started, fromCurrency, toCurrency, mounted>>

\* LoadDataResume that stores the inverse whatever the rate
LoadDataResume_AlwaysStoresInverse(p) ==
    /\ call[p].pc \in {"done", "failed"}
    /\ LET result == ReturnValue(call[p])
           cacheKey == PairKey(call[p].from, call[p].to)
           inverseKey == PairKey(call[p].to, call[p].from)
       IN  IF call[p].pc = "done"
           THEN /\ ratesCache' = (inverseKey :> InverseOfResult(result))
                                    @@ (cacheKey :> result) @@ ratesCache
                /\ appData' = result
                /\ error' = error
           ELSE /\ error' = ERROR_MESSAGE
                /\ UNCHANGED <<appData, ratesCache>>
    /\ loading' = FALSE
    /\ call' = [call EXCEPT ![p] = IdleCall]
    /\ UNCHANGED <<now, store, pending, started, fromCurrency, toCurrency, mounted>>

\* loadData after await fetchRealTimeRate: the try's rest, catch, finally
LoadDataResume(p) ==
    /\ call[p].pc \in {"done", "failed"}
    /\ LET result == ReturnValue(call[p])
           cacheKey == PairKey(call[p].from, call[p].to)
           inverseKey == PairKey(call[p].to, call[p].from)
       IN  IF call[p].pc = "done"
           THEN /\ ratesCache' =
                      IF GtZero(result.rate)
                      THEN (inverseKey :> InverseOfResult(result))
                             @@ (cacheKey :> result) @@ ratesCache
                      ELSE (cacheKey :> result) @@ ratesCache
                /\ appData' = result
                /\ error' = error
           ELSE /\ error' = ERROR_MESSAGE
                /\ UNCHANGED <<appData, ratesCache>>
    /\ loading' = FALSE
    /\ call' = [call EXCEPT ![p] = IdleCall]
    /\ UNCHANGED <<now, store, pending, started, fromCurrency, toCurrency, mounted>>

\* the currencies the selectors offer in the checked runs
Selectable == {"USD", "NGN"}

NextApp ==
    \/ \E p \in DOMAIN call : Mount(p)
    \/ \E p \in DOMAIN call : HandleManualRefresh(p)
    \/ \E p \in DOMAIN call : HandleSwap(p)
    \/ \E p \in DOMAIN call, code \in Selectable : SetFromCurrency(p, code)
    \/ \E p \in DOMAIN call, code \in Selectable : SetToCurrency(p, code)
    \/ \E p \in DOMAIN call : LoadDataResume(p)
    \/ \E p \in DOMAIN call, outcome \in {"row", "error", "throw"} : CacheRead(p, outcome)
    \/ \E p \in DOMAIN call, reply \in OracleReplies : OracleReply(p, reply)
    \/ \E p \in DOMAIN call : Retry(p)
    \/ \E row \in pending : WriteApplied(row)
    \/ \E row \in pending : WriteFailed(row)
    \/ \E t \in Instants : Tick(t)

SpecApp == InitPair /\ [][NextApp]_vars

(***************************************************************************)
(* Properties of the resolution.                                           *)
(***************************************************************************)
Ended(c) == c.pc \in {"done", "failed"}

FallbackTiers == {"stale", "emergency", "failure"}

\* s ends with t
EndsWith(s, t) == Len(s) >= Len(t) /\ SubSeq(s, Len(s) - Len(t) + 1, Len(s)) = t

\* C1: an invocation throws only when its oracle query failed, no row was
\* read for the canonical key and the emergency table has no entry for the
\* key; in every other case it returns a quote.
C1_ThrowsOnlyWhenAllTiersExhausted ==
    \A p \in DOMAIN call :
        LET c == call[p] IN
        Ended(c) =>
            /\ c.pc = "failed" <=>
                    /\ c.aiOutcome = "failed"
                    /\ c.staleRecord = NoRow
                    /\ c.pairId \notin DOMAIN EMERGENCY_RATES
            /\ c.pc = "done" => c.resultToReturn # NoData

\* an invocation threw although the table held a row for its key: the select
\* had failed, and the key (USD-EUR or NGN-NGN) has no emergency rate
C1_Witness ==
    \E p \in DOMAIN call :
        /\ call[p].pc = "failed"
        /\ \E r \in store : r.pair = call[p].pairId

\* C2: when the oracle query fails and a row (of any age) was read, the
\* result is built from that row with " (Cached)" appended to its time, even
\* for a key of the emergency table; and a quote whose time ends with
\* " (Cached)" is only returned after the oracle was asked and failed.
C2_StaleRowBeforeEmergencyTable ==
    \A p \in DOMAIN call :
        LET c == call[p]
            row == c.staleRecord
            q == c.resultToReturn
        IN
        Ended(c) =>
            /\ (c.aiOutcome = "failed" /\ row # NoRow) =>
                    /\ c.pc = "done"
                    /\ c.tier = "stale"
                    /\ q.rate = row.rate
                    /\ q.parallelRate =
                           (IF row.parallel_rate = Null THEN Undefined
                            ELSE row.parallel_rate)
                    /\ q.summary = row.summary
                    /\ q.sources = row.sources
                    /\ q.lastUpdated =
                           toLocaleTimeString(row.updated_at) \o " (Cached)"
                    /\ ReturnValue(c).lastUpdated = q.lastUpdated
            /\ (c.pc = "done" /\ EndsWith(ReturnValue(c).lastUpdated, " (Cached)")) =>
                    /\ c.asked >= 1
                    /\ c.aiOutcome = "failed"
                    /\ c.staleRecord # NoRow

\* a stale quote was returned for USD-NGN, a key of the emergency table
C2_Witness ==
    \E p \in DOMAIN call :
        /\ call[p].pc = "done"
        /\ call[p].tier = "stale"
        /\ call[p].pairId \in DOMAIN EMERGENCY_RATES
        /\ EndsWith(ReturnValue(call[p]).lastUpdated, " (Cached)")

\* C3: when the select returns, a row younger than 30 minutes is returned
\* with no oracle call; a missing row or one aged 30 minutes or more (exactly
\* 30 minutes included) sends the invocation to the oracle, and the row read
\* is kept as the stale fallback.
C3_FreshnessBoundary ==
    [][\A p \in DOMAIN call :
          (call[p].pc = "read" /\ call'[p].pc # "read") =>
              LET c == call'[p]
                  row == c.selected
              IN  /\ c.staleRecord = row
                  /\ IF row # NoRow /\ now - row.updated_at < CACHE_DURATION_MS
                     THEN /\ c.pc = "done"
                          /\ c.asked = 0
                          /\ c.tier = "fresh"
                          /\ c.resultToReturn.rate = row.rate
                          /\ c.resultToReturn.summary = row.summary
                          /\ c.resultToReturn.sources = row.sources
                     ELSE /\ c.pc = "ai"
                          /\ c.asked = 1]_vars

\* a row aged exactly 30 minutes was read and the oracle is being asked
C3_Witness ==
    \E p \in DOMAIN call :
        /\ call[p].pc = "ai"
        /\ call[p].staleRecord # NoRow
        /\ now - call[p].staleRecord.updated_at = CACHE_DURATION_MS

\* the keys NGN-X, X other than NGN
DomesticFirstKeys == {PairKey(DOMESTIC, x) : x \in Currencies \ {DOMESTIC}}

\* C4: no row is stored or upserted under a key NGN-X with X other than
\* NGN, the oracle is never asked for NGN -> X, and a request (NGN, X)
\* reads, asks and writes under X-NGN.
C4_CanonicalKey ==
    /\ \A r \in store \cup pending : r.pair \notin DomesticFirstKeys
    /\ \A p \in DOMAIN call :
          LET c == call[p] IN
          /\ c.pc \in {"ai", "sleep"} =>
                ~(c.searchFrom = DOMESTIC /\ c.searchTo # DOMESTIC)
          /\ (c.pc # "idle" /\ c.from = DOMESTIC /\ c.to # DOMESTIC) =>
                /\ c.searchFrom = c.to
                /\ c.searchTo = DOMESTIC
                /\ c.pairId = PairKey(c.to, DOMESTIC)
                /\ c.selected # NoRow => c.selected.pair = c.pairId

\* a request NGN -> USD was answered by the oracle and its row is in the
\* table under USD-NGN
C4_Witness ==
    \E p \in DOMAIN call :
        /\ call[p].from = "NGN" /\ call[p].to = "USD"
        /\ call[p].pc = "done" /\ call[p].tier = "oracle"
        /\ \E r \in store : r.pair = "USD-NGN" /\ r.rate = call[p].resultToReturn.rate

\* x * y = 1
Reciprocals(x, y) ==
    x.k = "num" /\ y.k = "num" /\ x.n # 0 /\ x.n * y.n = x.d * y.d

\* two invocations met the same table and the same oracle: the select gave
\* them the same data, they asked the oracle as often and heard the same
\* last reply
SameInputs(c, d) ==
    c.selected = d.selected /\ c.asked = d.asked /\ c.reply = d.reply

\* C5: for a foreign currency X, resolving (NGN, X) and (X, NGN) from the
\* same table state and oracle behaviour use the same key, take the same
\* tier, and when the chosen rate is > 0 return reciprocal rates and
\* reciprocal parallel rates (a parallelRate that is not truthy, which every
\* reader of the quote takes for none, counts as absent).
C5_CanonicalizationSymmetry ==
    \A p, q \in DOMAIN call :
        LET c == call[p]
            d == call[q]
        IN
        (/\ Ended(c) /\ Ended(d)
         /\ c.from = DOMESTIC /\ c.to # DOMESTIC
         /\ d.from = c.to /\ d.to = DOMESTIC
         /\ SameInputs(c, d)) =>
            /\ c.pairId = d.pairId
            /\ c.searchFrom = d.searchFrom /\ c.searchTo = d.searchTo
            /\ c.tier = d.tier
            /\ c.pc = d.pc
            /\ (c.pc = "done" /\ GtZero(c.resultToReturn.rate)) =>
                  /\ Reciprocals(ReturnValue(c).rate, ReturnValue(d).rate)
                  /\ \/ Reciprocals(ReturnValue(c).parallelRate,
                                    ReturnValue(d).parallelRate)
                     \/ /\ ~Truthy(ReturnValue(c).parallelRate)
                        /\ ~Truthy(ReturnValue(d).parallelRate)

\* NGN -> USD and USD -> NGN both read the same stale row, both were failed
\* by the oracle, and both returned the stale quote with a parallel rate
C5_Witness ==
    \E p, q \in DOMAIN call :
        /\ call[p].from = "NGN" /\ call[p].to = "USD"
        /\ call[q].from = "USD" /\ call[q].to = "NGN"
        /\ call[p].pc = "done" /\ call[q].pc = "done"
        /\ call[p].tier = "stale" /\ call[q].tier = "stale"
        /\ SameInputs(call[p], call[q])
        /\ Truthy(ReturnValue(call[q]).parallelRate)

\* the reply is a failure carrying a rate-limit signal: status 429, code
\* 429, or a message containing "429" or "quota"
RateLimitSignal(e) ==
    /\ e.kind = "error"
    /\ \/ e.status = 429
       \/ e.code = 429
       \/ \E i \in DOMAIN e.message : e.message[i] \in {"429", "quota"}

\* C6: an invocation asks the oracle at most budget + 1 times; it waits for
\* a retry only after a rate-limited failure with budget left, each retry
\* takes one from the budget, and when the last attempt too is rate-limited
\* the oracle was asked exactly budget + 1 times and the fallbacks decide.
C6_RetryBound ==
    \A p \in DOMAIN call :
        LET c == call[p] IN
        /\ c.asked <= DEFAULT_RETRIES + 1
        /\ c.retries >= 0
        /\ c.asked >= 1 => c.asked = (DEFAULT_RETRIES - c.retries) + 1
        /\ c.pc = "sleep" => (RateLimitSignal(c.reply) /\ c.retries > 0)
        /\ (Ended(c) /\ c.aiOutcome = "failed" /\ RateLimitSignal(c.reply)) =>
              /\ c.asked = DEFAULT_RETRIES + 1
              /\ c.retries = 0
              /\ c.tier \in FallbackTiers

\* the oracle was rate-limited twice: asked twice, then the fallbacks
C6_Witness ==
    \E p \in DOMAIN call :
        /\ Ended(call[p])
        /\ call[p].asked = DEFAULT_RETRIES + 1
        /\ call[p].aiOutcome = "failed"
        /\ RateLimitSignal(call[p].reply)

\* C7: a failure without a rate-limit signal (a network error, the
\* parser's zero rate) ends the oracle query at once, whatever budget is
\* left: the invocation is never waiting for a retry with such an error, and
\* it went to the fallbacks.
C7_NoRetryWithoutRateLimit ==
    \A p \in DOMAIN call :
        LET c == call[p] IN
        (c.err # NoError /\ ~RateLimitSignal(c.err)) =>
            /\ Ended(c)
            /\ c.aiOutcome = "failed"
            /\ c.tier \in FallbackTiers
            /\ c.asked = (DEFAULT_RETRIES - c.retries) + 1

\* the first attempt met a network error with the whole budget left
C7_Witness ==
    \E p \in DOMAIN call :
        /\ Ended(call[p])
        /\ call[p].err = ErrNetwork
        /\ call[p].retries = DEFAULT_RETRIES
        /\ call[p].asked = 1

\* the parser gets no usable rate from a response: no rate from JSON (no
\* block, a block that does not parse, a rate that is not truthy) and no
\* valid candidate among the regex matches
NoUsableRate(r) ==
    /\ r.kind = "response"
    /\ (r.block = "none" \/ ~r.parses \/ ~Truthy(r.rate))
    /\ \A i \in DOMAIN r.matches : ~ValidCandidate(r.matches[i])

C9_ReturnedRatePositive ==
    \A p \in DOMAIN call :
        call[p].pc = "done" => GtZero(ReturnValue(call[p]).rate)

\* the row upserted for the quote q of an invocation with key pairId, at t
RowHolds(row, pairId, q, t) ==
    /\ row.pair = pairId
    /\ row.rate = q.rate
    /\ row.parallel_rate = (IF Truthy(q.parallelRate) THEN q.parallelRate ELSE Null)
    /\ row.summary = q.summary
    /\ row.sources = q.sources
    /\ row.updated_at = t

\* the step ends the oracle query of p with a result of rate > 0
OracleSuccessStep(p) ==
    /\ call[p].pc = "ai"
    /\ call'[p].pc = "done"
    /\ call'[p].tier = "oracle"
    /\ call'[p].aiOutcome = "ok"
    /\ GtZero(call'[p].resultToReturn.rate)

\* C10: a write is issued exactly by the step in which the oracle query
\* succeeds with rate > 0, and it carries the un-inverted result under the
\* canonical key; no other step (fresh hit, stale or emergency fallback,
\* hard failure) issues a write, and no step deletes a row.
C10_PersistenceLifecycle ==
    [][/\ \A row \in pending' \ pending :
             \E p \in DOMAIN call :
                 /\ OracleSuccessStep(p)
                 /\ RowHolds(row, PairKey(call'[p].searchFrom, call'[p].searchTo),
                             call'[p].resultToReturn, now)
       /\ \A p \in DOMAIN call :
             OracleSuccessStep(p) =>
                 \E row \in pending' :
                     RowHolds(row, call'[p].pairId, call'[p].resultToReturn, now)
       /\ \A p \in DOMAIN call :
             (call'[p] # call[p] /\ ~OracleSuccessStep(p)) => pending' = pending
       /\ \A r \in store : \E r2 \in store' : r2.pair = r.pair
       /\ \A r2 \in store' \ store : r2 \in pending]_vars

\* a request NGN -> X was answered by the oracle: the row in flight holds
\* the rate as found, the quote returned holds its reciprocal
C10_Witness ==
    \E p \in DOMAIN call :
        /\ call[p].pc = "done" /\ call[p].tier = "oracle"
        /\ call[p].shouldInvert
        /\ \E row \in pending :
              /\ RowHolds(row, call[p].pairId, call[p].resultToReturn, now)
              /\ ReturnValue(call[p]).rate # row.rate

\* C11: the step that gets the oracle's result ends the invocation with the
\* quote while its upsert is still in flight; when an upsert lands or fails
\* no invocation changes, and a quote once returned stays as it is until the
\* caller has taken it.
C11_FireAndForget ==
    [][/\ \A p \in DOMAIN call :
             OracleSuccessStep(p) =>
                 /\ call'[p].pc = "done"
                 /\ ReturnValue(call'[p]) =
                        Returned(call[p].shouldInvert, fetchFromAI(call'[p].reply, now).data)
                 /\ \E row \in pending' :
                        RowHolds(row, call'[p].pairId, call'[p].resultToReturn, now)
       /\ (pending' # pending /\ pending' \subseteq pending) => call' = call
       /\ \A p \in DOMAIN call :
             (call[p].pc = "done" /\ call'[p].pc # "idle") => call'[p] = call[p]]_vars

\* the only invocation so far got rate > 0 from the oracle and returned it;
\* its upsert has failed: nothing is in flight and the table is empty
C11_Witness ==
    /\ started = 1 /\ pending = {} /\ store = {}
    /\ \E p \in DOMAIN call :
          /\ call[p].pc = "done" /\ call[p].tier = "oracle"
          /\ GtZero(ReturnValue(call[p]).rate)

\* C12: a select that gives an error or throws does not end the invocation:
\* the step is the step of a miss (no stale record, the oracle is asked),
\* also when the table holds a row for the key; and an invocation without a
\* stale record whose oracle query failed ends on the emergency table or
\* throws.
C12_CacheReadFailureSwallowed ==
    [][\A p \in DOMAIN call :
          /\ (\E o \in {"error", "throw"} : CacheRead(p, o)) =>
                /\ call'[p] = [call[p] EXCEPT !.pc = "ai", !.retries = DEFAULT_RETRIES,
                                               !.asked = 1]
                /\ call'[p].staleRecord = NoRow
                /\ call'[p].resultToReturn = NoData
          /\ (Ended(call'[p]) /\ call'[p].aiOutcome = "failed"
                /\ call'[p].staleRecord = NoRow) =>
                /\ call'[p].tier \in {"emergency", "failure"}
                /\ call'[p].tier = "emergency" <=>
                      call'[p].pairId \in DOMAIN EMERGENCY_RATES
                /\ call'[p].tier = "failure" <=> call'[p].pc = "failed"]_vars

\* the table held the row of USD-NGN from the start, the only invocation so
\* far asked for that key, got no row, and ended on the emergency table
C12_Witness ==
    /\ started = 1 /\ store = {SeedRow} /\ pending = {}
    /\ \E p \in DOMAIN call :
          /\ call[p].pc = "done" /\ call[p].pairId = "USD-NGN"
          /\ call[p].selected = NoRow
          /\ call[p].tier = "emergency"

\* C13: the emergency table gives the result only after a failed oracle
\* query with no row read, for a key it holds; the quote then has the
\* table's rate (its reciprocal for NGN -> X), "Offline Estimate", the
\* fixed summary, no parallelRate and no sources; and no other path returns
\* a quote labelled "Offline Estimate".
C13_EmergencyTier ==
    \A p \in DOMAIN call :
        LET c == call[p] IN
        /\ c.tier = "emergency" =>
              /\ c.pc = "done"
              /\ c.aiOutcome = "failed"
              /\ c.selected = NoRow /\ c.staleRecord = NoRow
              /\ c.pairId \in DOMAIN EMERGENCY_RATES
              /\ c.resultToReturn =
                    ExchangeData(EMERGENCY_RATES[c.pairId], Undefined,
                                 EMERGENCY_SUMMARY, "Offline Estimate", <<>>)
              /\ ReturnValue(c).rate =
                    (IF c.from = DOMESTIC /\ c.to # DOMESTIC
                     THEN Reciprocal(EMERGENCY_RATES[c.pairId])
                     ELSE EMERGENCY_RATES[c.pairId])
              /\ ReturnValue(c).lastUpdated = "Offline Estimate"
              /\ ReturnValue(c).summary = EMERGENCY_SUMMARY
              /\ ReturnValue(c).parallelRate = Undefined
              /\ ReturnValue(c).sources = <<>>
        /\ (c.pc = "done" /\ ReturnValue(c).lastUpdated = "Offline Estimate") =>
              c.tier = "emergency"

\* NGN -> USD ended on the emergency table: rate 1/1580
C13_Witness ==
    \E p \in DOMAIN call :
        /\ call[p].pc = "done" /\ call[p].tier = "emergency"
        /\ call[p].from = DOMESTIC /\ call[p].to = "USD"
        /\ ReturnValue(call[p]).rate = Num(1, 1580)

\* quotes with rate 0 and rate < 0, with and without a parallelRate
NonPositiveQuotes ==
    {ExchangeData(r, pr, "Down.", "60s", src) :
        r \in {Num(0, 1), Num(-5, 1), Num(-1, 4)},
        pr \in {Undefined, Num(1600, 1), Num(-5, 1), NaN},
        src \in {<<>>, WebSources(<<CBN>>)}}

\* C14: invertExchangeData returns a quote with rate <= 0 as it is, in
\* every field; so does the return of an invocation with the invert flag
\* set.
C14_InversionNoOpOnNonPositive ==
    /\ \A q \in NonPositiveQuotes : invertExchangeData(q) = q
    /\ \A p \in DOMAIN call :
          (call[p].pc = "done" /\ LeZero(call[p].resultToReturn.rate)) =>
              /\ invertExchangeData(call[p].resultToReturn) = call[p].resultToReturn
              /\ ReturnValue(call[p]) = call[p].resultToReturn

\* NGN -> X got rate -5 from the oracle and returned
C14_Witness ==
    \E p \in DOMAIN call :
        /\ call[p].pc = "done" /\ call[p].shouldInvert
        /\ call[p].resultToReturn.rate = Num(-5, 1)

\* C15: with the invert flag set and a chosen quote of rate > 0 the quote
\* returned has rate 1/rate, parallelRate 1/parallelRate when the chosen
\* quote has one and none otherwise, and the chosen quote's summary, sources
\* and lastUpdated; with the flag unset the chosen quote is returned as it
\* is.  On every tier.
C15_InversionFrame ==
    \A p \in DOMAIN call :
        LET c == call[p]
            q == c.resultToReturn
            r == ReturnValue(c)
        IN  c.pc = "done" =>
              /\ c.tier \in {"fresh", "oracle", "stale", "emergency"}
              /\ (c.shouldInvert /\ GtZero(q.rate)) =>
                    /\ r.rate = Reciprocal(q.rate)
                    /\ r.parallelRate = (IF Truthy(q.parallelRate)
                                         THEN Reciprocal(q.parallelRate)
                                         ELSE Undefined)
                    /\ r.summary = q.summary
                    /\ r.sources = q.sources
                    /\ r.lastUpdated = q.lastUpdated
              /\ ~c.shouldInvert => r = q

\* NGN -> USD ended on a stale row that holds a parallel_rate
C15_Witness ==
    \E p \in DOMAIN call :
        /\ call[p].pc = "done" /\ call[p].tier = "stale"
        /\ call[p].shouldInvert
        /\ Truthy(call[p].resultToReturn.parallelRate)
        /\ ReturnValue(call[p]).rate = Reciprocal(call[p].resultToReturn.rate)

(***************************************************************************)
(* Properties of the consumer.  resolve(A, B, forceRefresh) is loadData of *)
(* the closure made for (A, B): a step of a handler that runs loadData is  *)
(* a resolve of the pair selected after the step.                          *)
(***************************************************************************)
\* the step is a resolve(fromCurrency', toCurrency', FALSE)
ResolvesFromCache ==
    \E p \in DOMAIN call :
        \/ Mount(p)
        \/ \E a, b \in Selectable :
              /\ <<a, b>> # <<fromCurrency, toCurrency>>
              /\ SelectPair(p, a, b)

\* the step is the rest of p's loadData after a fetch that returned a quote
ResumesWithQuote(p) == call[p].pc = "done" /\ LoadDataResume(p)

\* the step is the rest of p's loadData after a fetch that threw
ResumesWithError(p) == call[p].pc = "failed" /\ LoadDataResume(p)

\* the keys of the pair p's loadData was made for
KeysOf(p) == {PairKey(call[p].from, call[p].to), PairKey(call[p].to, call[p].from)}

\* C16 (amended): when a resolve(A, B) that invoked the orchestrator gets a
\* quote with rate r > 0, the entries A-B and B-A are set, B-A with rate
\* 1/r; an entry is never removed and changes only when a resolve that
\* invoked the orchestrator for its pair gets a quote; and a resolve
\* without forceRefresh of a cached key returns the entry without invoking
\* the orchestrator.
C16_SessionCacheDerivation ==
    [][/\ \A p \in DOMAIN call :
             (ResumesWithQuote(p) /\ GtZero(ReturnValue(call[p]).rate)) =>
                 /\ KeysOf(p) \subseteq DOMAIN ratesCache'
                 /\ ratesCache'[PairKey(call[p].to, call[p].from)].rate =
                        Reciprocal(ReturnValue(call[p]).rate)
                 /\ call[p].from # call[p].to =>
                        ratesCache'[PairKey(call[p].from, call[p].to)].rate =
                            ReturnValue(call[p]).rate
       /\ \A k \in DOMAIN ratesCache :
             /\ k \in DOMAIN ratesCache'
             /\ ratesCache'[k] # ratesCache[k] =>
                   \E p \in DOMAIN call : ResumesWithQuote(p) /\ k \in KeysOf(p)
       /\ (ResolvesFromCache /\ Cached(PairKey(fromCurrency', toCurrency'))) =>
             /\ call' = call
             /\ started' = started
             /\ appData' = ratesCache[PairKey(fromCurrency', toCurrency')]]_vars

\* USD -> NGN was fetched once and got 1550.25; NGN -> USD is now selected
\* and shows 1/1550.25, and no second fetch was made
C16_Witness ==
    /\ started = 1
    /\ \A p \in DOMAIN call : call[p].pc = "idle"
    /\ fromCurrency = "NGN" /\ toCurrency = "USD"
    /\ Cached("USD-NGN") /\ ratesCache["USD-NGN"].rate = Num(6201, 4)
    /\ appData.rate = Num(4, 6201)

\* C16 as stated: once a resolve(A, B) got rate r > 0, every later
\* resolve(B, A) without forceRefresh quotes 1/r: the entry B-A keeps the
\* rate it got.
C16_InverseRateKept ==
    [][\A a, b \in Selectable :
          (a # b /\ Cached(PairKey(a, b)) /\ Cached(PairKey(b, a))
             /\ GtZero(ratesCache[PairKey(a, b)].rate)) =>
              ratesCache'[PairKey(b, a)].rate = ratesCache[PairKey(b, a)].rate]_vars

\* C17: a resolve without forceRefresh of a key that is not cached while
\* the inverse key is derives the quote as invertExchangeData does, stores
\* it under the requested key, shows it, and does not invoke the
\* orchestrator.
C17_InverseHitAsInvertStep ==
    [][LET cacheKey == PairKey(fromCurrency', toCurrency')
           inverseKey == PairKey(toCurrency', fromCurrency')
       IN  (ResolvesFromCache /\ ~Cached(cacheKey) /\ Cached(inverseKey)) =>
              /\ appData' = invertExchangeData(ratesCache[inverseKey])
              /\ ratesCache' = (cacheKey :> invertExchangeData(ratesCache[inverseKey]))
                                  @@ ratesCache
              /\ call' = call
              /\ started' = started]_vars

\* C18: a resolve without forceRefresh of a cached key shows the entry,
\* does not invoke the orchestrator and leaves the session cache as it is.
C18_DirectHit ==
    [][LET cacheKey == PairKey(fromCurrency', toCurrency')
       IN  (ResolvesFromCache /\ Cached(cacheKey)) =>
              /\ appData' = ratesCache[cacheKey]
              /\ loading' = FALSE
              /\ error' = ""
              /\ ratesCache' = ratesCache
              /\ call' = call
              /\ started' = started]_vars

\* a forced refresh of USD -> NGN is in flight; NGN -> USD was selected
\* meanwhile and its entry, stored when the first fetch returned, is shown
C18_Witness ==
    /\ started = 2
    /\ fromCurrency = "NGN" /\ toCurrency = "USD"
    /\ ~loading
    /\ \E p \in DOMAIN call : call[p].pc \in {"read", "ai"} /\ call[p].from = "USD"
    /\ \E p \in DOMAIN call : call[p].pc = "idle"
    /\ Cached("NGN-USD") /\ Cached("USD-NGN")
    /\ appData = ratesCache["NGN-USD"]
    /\ GtZero(appData.rate)

\* C19: when the fetch of a resolve throws, the generic message is shown
\* and the session cache stays as it is; nor does the resolve change it
\* when it invokes the orchestrator, and the orchestrator's own steps never
\* change it.
C19_FailureKeepsSessionCache ==
    [][/\ \A p \in DOMAIN call :
             ResumesWithError(p) =>
                 /\ error' = ERROR_MESSAGE
                 /\ ratesCache' = ratesCache
                 /\ appData' = appData
                 /\ loading' = FALSE
       /\ \A p \in DOMAIN call :
             (call'[p] # call[p] /\ ~ResumesWithQuote(p)) => ratesCache' = ratesCache]_vars

\* a fetch has failed after an earlier one had filled the cache: the
\* message is shown and the entries are there
C19_Witness ==
    /\ started = 2
    /\ \A p \in DOMAIN call : call[p].pc = "idle"
    /\ error = ERROR_MESSAGE
    /\ Cached("USD-NGN") /\ Cached("NGN-USD")

C21_ConcurrentSamePair ==
    /\ [](\A p \in DOMAIN call :
             /\ call[p].pc = "read" => ENABLED CacheRead(p, "row")
             /\ call[p].pc = "ai" => ENABLED OracleReply(p, TextScenario)
             /\ call[p].pc = "sleep" => ENABLED Retry(p))
    /\ [](\A r1, r2 \in store : r1.pair = r2.pair => r1 = r2)
    /\ [][/\ \A p, q \in DOMAIN call :
                (p # q /\ call'[p] # call[p]) => call'[q] = call[q]
          /\ \A row \in pending \ pending' :
                \/ store' = store
                \/ /\ row \in store'
                   /\ store' = {r \in store : r.pair # row.pair} \cup {row}]_vars

\* two invocations of the same key both got a quote from the oracle, with
\* different rates; no upsert is in flight any more and the table holds
\* the row of one of them
C21_Witness ==
    \E p, q \in DOMAIN call :
        /\ p # q
        /\ call[p].pairId = call[q].pairId
        /\ call[p].pc = "done" /\ call[p].tier = "oracle"
        /\ call[q].pc = "done" /\ call[q].tier = "oracle"
        /\ GtZero(call[p].resultToReturn.rate)
        /\ GtZero(call[q].resultToReturn.rate)
        /\ call[p].resultToReturn.rate # call[q].resultToReturn.rate
        /\ pending = {}
        /\ \E row \in store :
              /\ row.pair = call[q].pairId
              /\ row.rate = call[q].resultToReturn.rate
              /\ store = {row}

\* the responses the parser is given: all the texts, and the replies heard
HeardResponses ==
    Responses \cup {call[p].reply : p \in {q \in DOMAIN call : call[q].reply.kind = "response"}}

\* C22 (amended): when the text holds a fenced JSON block that parses and
\* declares a rate that parseFloat reads as a number other than 0, the
\* detected rate is that number whatever numbers are in the prose; the
\* regex extraction runs exactly when the JSON path left no such number: no
\* block, a block that does not parse, a rate that is absent, null, 0 or
\* "", or a string that parseFloat reads as 0 or NaN.
C22_ParserPriority ==
    /\ \A r \in HeardResponses :
          /\ (r.block = "fenced" /\ r.parses /\ Truthy(parseFloat(r.rate))) =>
                /\ DetectedRate(r) = parseFloat(r.rate)
                /\ ~RegexRuns(r)
          /\ RegexRuns(r) <=>
                (r.block = "none" \/ ~r.parses \/ ~Truthy(parseFloat(r.rate)))
    /\ \A p \in DOMAIN call :
          LET c == call[p] IN
          (c.tier = "oracle" /\ c.reply.block = "fenced" /\ c.reply.parses
             /\ Truthy(parseFloat(c.reply.rate))) =>
              c.resultToReturn.rate = parseFloat(c.reply.rate)

\* the oracle's text declared 1550.25 in its JSON block and quoted
\* 1,499.50 before it: the quote has 1550.25
C22_Witness ==
    \E p \in DOMAIN call :
        /\ call[p].pc = "done" /\ call[p].tier = "oracle"
        /\ call[p].reply = TextScenario
        /\ FindValid(call[p].reply.matches) = Num(2999, 2)
        /\ call[p].resultToReturn.rate = Num(6201, 4)

\* C22 as stated: a fenced block that parses and declares a truthy rate
\* gives the detected rate, and the regex extraction runs only with no
\* block, a block that does not parse, or a rate that is not truthy.
C22_TruthyJsonRateWins ==
    \A p \in DOMAIN call :
        LET r == call[p].reply IN
        r.kind = "response" =>
          /\ (r.block = "fenced" /\ r.parses /\ Truthy(r.rate)) =>
                (call[p].tier = "oracle" =>
                    call[p].resultToReturn.rate # FindValid(r.matches))
          /\ RegexRuns(r) => (r.block = "none" \/ ~r.parses \/ ~Truthy(r.rate))

\* the inverse of quote q: rate 1/q.rate, parallelRate 1/q.parallelRate
\* when q has one, q's summary, sources and lastUpdated
IsInverseOf(e, q) ==
    /\ e.rate = Reciprocal(q.rate)
    /\ e.parallelRate = (IF Truthy(q.parallelRate)
                         THEN Reciprocal(q.parallelRate) ELSE Undefined)
    /\ e.summary = q.summary
    /\ e.sources = q.sources
    /\ e.lastUpdated = q.lastUpdated

\* the entry of key k is after the step as it was before it
EntryKept(k) ==
    /\ k \in DOMAIN ratesCache' <=> k \in DOMAIN ratesCache
    /\ k \in DOMAIN ratesCache => ratesCache'[k] = ratesCache[k]

\* C23 (amended): when the fetch of resolve(A, B) returns quote q and
\* A # B, the entry A-B is q, and the entry B-A is the inverse of q when
\* q.rate > 0 and is left as it was otherwise; when A = B the one entry
\* A-A is the inverse of q when q.rate > 0 and q otherwise.  No other entry
\* changes.
C23_StoreOnSuccess ==
    [][\A p \in DOMAIN call :
          ResumesWithQuote(p) =>
              LET q == ReturnValue(call[p])
                  ab == PairKey(call[p].from, call[p].to)
                  ba == PairKey(call[p].to, call[p].from)
              IN  /\ ab \in DOMAIN ratesCache'
                  /\ call[p].from # call[p].to =>
                        /\ ratesCache'[ab] = q
                        /\ GtZero(q.rate) =>
                              (ba \in DOMAIN ratesCache' /\ IsInverseOf(ratesCache'[ba], q))
                        /\ ~GtZero(q.rate) => EntryKept(ba)
                  /\ call[p].from = call[p].to =>
                        IF GtZero(q.rate) THEN IsInverseOf(ratesCache'[ab], q)
                        ELSE ratesCache'[ab] = q
                  /\ \A k \in (DOMAIN ratesCache \cup DOMAIN ratesCache') \ {ab, ba} :
                        EntryKept(k)]_vars

\* a fetch for USD -> NGN returned rate -5 when the entry NGN-USD held
\* rate 1/1550.25: the entry USD-NGN has -5, the entry NGN-USD is as it was
C23_Witness ==
    /\ started = 2
    /\ \A p \in DOMAIN call : call[p].pc = "idle"
    /\ Cached("USD-NGN") /\ ratesCache["USD-NGN"].rate = Num(-5, 1)
    /\ Cached("NGN-USD") /\ ratesCache["NGN-USD"].rate = Num(4, 6201)
    /\ appData = ratesCache["USD-NGN"]

\* C23 as stated: when the fetch of resolve(A, B) returns quote q, the
\* entry A-B is q, the entry B-A is the inverse of q when q.rate > 0, and
\* is left as it was when q.rate <= 0.
C23_EntryAndInverseStored ==
    [][\A p \in DOMAIN call :
          ResumesWithQuote(p) =>
              LET q == ReturnValue(call[p])
                  ab == PairKey(call[p].from, call[p].to)
                  ba == PairKey(call[p].to, call[p].from)
              IN  /\ ab \in DOMAIN ratesCache' /\ ratesCache'[ab] = q
                  /\ GtZero(q.rate) =>
                        (ba \in DOMAIN ratesCache' /\ IsInverseOf(ratesCache'[ba], q))
                  /\ LeZero(q.rate) => EntryKept(ba)]_vars

(***************************************************************************)
\* the place of an invocation in fetchRealTimeRate: 1 the cache check, 2
\* the oracle query with its retries, 3 returned or thrown
Stage(c) ==
    CASE c.pc = "idle" -> 0
      [] c.pc = "read" -> 1
      [] c.pc \in {"ai", "sleep"} -> 2
      [] OTHER -> 3

\* C24: when every cache read, oracle call and backoff settles, every
\* invocation ends (returns a quote or throws); each retry takes exactly one
\* from a budget that never goes below 0; and an invocation moves only
\* forward: from the cache check to a fresh hit or to the oracle query,
\* within the query from an attempt to the backoff and to the next attempt,
\* from an attempt to the oracle's quote, to a fallback or to the throw,
\* and it ends only then; the canonical pair and the inversion flag chosen
\* at the start do not change on the way.
C24_Termination ==
    /\ (call["p1"].pc \in {"read", "ai", "sleep"}) ~> Ended(call["p1"])
    /\ [](\A p \in DOMAIN call : call[p].retries >= 0)
    /\ [][\A p \in DOMAIN call :
            LET c == call[p]
                d == call'[p]
            IN  d # c =>
                /\ c.pc = "idle" => (d.pc = "read" /\ d.asked = 0)
                /\ c.pc = "read" =>
                      \/ d.pc = "done" /\ d.tier = "fresh" /\ d.asked = 0
                      \/ d.pc = "ai" /\ d.retries = DEFAULT_RETRIES /\ d.asked = 1
                /\ c.pc = "ai" =>
                      \/ d.pc = "done" /\ d.tier = "oracle"
                      \/ d.pc = "done" /\ d.tier \in {"stale", "emergency"}
                      \/ d.pc = "failed" /\ d.tier = "failure"
                      \/ d.pc = "sleep" /\ c.retries > 0 /\ d.retries = c.retries
                /\ c.pc = "sleep" =>
                      (d.pc = "ai" /\ d.retries = c.retries - 1 /\ d.retries >= 0
                       /\ d.retries < c.retries)
                /\ Ended(c) => d = IdleCall
                /\ (c.pc # "idle" /\ ~Ended(c)) =>
                      /\ Stage(d) >= Stage(c)
                      /\ d.pairId = c.pairId
                      /\ d.shouldInvert = c.shouldInvert
                      /\ d.from = c.from /\ d.to = c.to]_vars

\* a request (NGN, USD) was rate-limited once, retried with budget 0, and
\* returned the inverse of the quote the second attempt gave
C24_Witness ==
    /\ call["p1"].pc = "done"
    /\ call["p1"].from = "NGN" /\ call["p1"].to = "USD"
    /\ call["p1"].shouldInvert
    /\ call["p1"].asked = 2
    /\ call["p1"].retries = 0
    /\ call["p1"].tier = "oracle"
    /\ ReturnValue(call["p1"]).rate = Num(4, 6201)

(***************************************************************************)
\* C25: whenever the session cache holds both A-B and B-A for A # B,
\* their rates are reciprocal, their parallelRates are reciprocal or both
\* absent, and their summary, sources and lastUpdated are the same.
C25_SessionCacheReciprocity ==
    \A a, b \in Currencies :
        (a # b /\ Cached(PairKey(a, b)) /\ Cached(PairKey(b, a))) =>
            LET x == ratesCache[PairKey(a, b)]
                y == ratesCache[PairKey(b, a)]
            IN  /\ Reciprocals(x.rate, y.rate)
                /\ \/ Reciprocals(x.parallelRate, y.parallelRate)
                   \/ ~Truthy(x.parallelRate) /\ ~Truthy(y.parallelRate)
                /\ x.summary = y.summary
                /\ x.sources = y.sources
                /\ x.lastUpdated = y.lastUpdated

(***************************************************************************)
\* the oracle quotes whose upsert for pairId is the row: aiResult of a
\* reply heard at an instant t, with rate > 0
QuotesOfRow(pairId, row) ==
    {fetchFromAI(reply, row.updated_at).data : reply \in
        {r \in OracleReplies :
            LET out == fetchFromAI(r, row.updated_at)
            IN  /\ out.ok
                /\ ShouldPersist(out.data)
                /\ UpsertRow(pairId, out.data, row.updated_at) = row}}

\* C26 (amended): an invocation that finds fresh the row an earlier
\* invocation upserted for an oracle quote has as its result, before the
\* inversion, the quote's rate, summary and sources, the quote's
\* parallelRate when that is truthy and no parallelRate when the quote had
\* none or one that is not truthy (NaN, 0), and a lastUpdated without the
\* " (Cached)" suffix.
C26_PersistenceRoundTrip ==
    \A p \in DOMAIN call :
        LET c == call[p] IN
        (c.pc = "done" /\ c.tier = "fresh") =>
            /\ QuotesOfRow(c.pairId, c.selected) # {}
            /\ \A q \in QuotesOfRow(c.pairId, c.selected) :
                  /\ c.resultToReturn.rate = q.rate
                  /\ c.resultToReturn.parallelRate =
                        (IF Truthy(q.parallelRate) THEN q.parallelRate
                         ELSE Undefined)
                  /\ c.resultToReturn.summary = q.summary
                  /\ c.resultToReturn.sources = q.sources
            /\ ~EndsWith(c.resultToReturn.lastUpdated, " (Cached)")
            /\ c.asked = 0

\* a request (NGN, USD) found fresh the row upserted for the scenario's
\* quote: its result has rate 1550.25 and parallelRate 1600, and it
\* returns their inverses
C26_Witness ==
    /\ call["p1"].pc = "done"
    /\ call["p1"].tier = "fresh"
    /\ call["p1"].from = "NGN" /\ call["p1"].to = "USD"
    /\ call["p1"].selected = SeedRow
    /\ call["p1"].resultToReturn.rate = Num(6201, 4)
    /\ call["p1"].resultToReturn.parallelRate = Num(1600, 1)
    /\ ReturnValue(call["p1"]).parallelRate = Num(1, 1600)

\* C26 as stated: the fresh read returns the same rate, parallelRate
\* (absent stays absent), summary and sources as the oracle quote
C26_SameQuoteComesBack ==
    \A p \in DOMAIN call :
        LET c == call[p] IN
        (c.pc = "done" /\ c.tier = "fresh") =>
            /\ \A q \in QuotesOfRow(c.pairId, c.selected) :
                  /\ c.resultToReturn.rate = q.rate
                  /\ c.resultToReturn.parallelRate = q.parallelRate
                  /\ c.resultToReturn.summary = q.summary
                  /\ c.resultToReturn.sources = q.sources
            /\ ~EndsWith(c.resultToReturn.lastUpdated, " (Cached)")

(***************************************************************************)
\* C27: whenever no resolve is in flight and no error is shown, the
\* displayed quote is the session-cache entry of the selected (from, to)
\* pair; and an entry is stored under key X-Y only as the quote of a
\* resolve for X -> Y or as the inverse of a quote for Y -> X.
C27_DisplayedMatchesSelected ==
    /\ []((/\ mounted
           /\ \A p \in DOMAIN call : call[p].pc = "idle"
           /\ error = "") =>
              /\ Cached(PairKey(fromCurrency, toCurrency))
              /\ appData = ratesCache[PairKey(fromCurrency, toCurrency)])
    /\ [][\A x, y \in Currencies :
            LET xy == PairKey(x, y)
                yx == PairKey(y, x)
            IN  (xy \in DOMAIN ratesCache' /\ ~EntryKept(xy)) =>
                    \/ \E p \in DOMAIN call :
                          /\ call[p].pc = "done"
                          /\ call'[p].pc = "idle"
                          /\ \/ /\ call[p].from = x /\ call[p].to = y
                                /\ ratesCache'[xy] = ReturnValue(call[p])
                             \/ /\ call[p].from = y /\ call[p].to = x
                                /\ IsInverseOf(ratesCache'[xy], ReturnValue(call[p]))
                    \/ /\ fromCurrency' = x /\ toCurrency' = y
                       /\ Cached(yx)
                       /\ ratesCache'[xy] = InvertedData(ratesCache[yx])]_vars

====
